---- MODULE Spec2Model ----
(***************************************************************************)
(* Model of the LFS-warning pull-request check (src/src/index.ts).         *)
(*                                                                         *)
(* The source file holds two drafts of the check.  Draft 1 (lines 1-286)   *)
(* probes file content through the helper doGrepBasedBinaryCheck and       *)
(* consults the inclusion patterns inside that helper.  Draft 2 (lines     *)
(* 288-576) probes content inline and walks the files matching the         *)
(* inclusion patterns in a second pass.  The variable `variant` selects    *)
(* the draft a run executes; everything else is shared.                    *)
(*                                                                         *)
(* The platform's answers are taken whole: pulls.listFiles answers with    *)
(* every changed file of the pull request, each path once, and             *)
(* issues.listLabelsOnIssue with every label of it.  Any awaited request   *)
(* may also reject.                                                        *)
(*                                                                         *)
(* JavaScript strings are sequences of one-character strings.  JavaScript  *)
(* numbers are naturals written in base 1024, least significant limb       *)
(* first, without high zero limbs (zero is <<0>>); NaN is <<-1>>.          *)
(***************************************************************************)
EXTENDS Integers, Sequences, FiniteSets, TLC

\* ------------------------------------------------------------------------
\* Bounds of the model
\* ------------------------------------------------------------------------

\* longest size-limit string drawn by InitThreshold
MaxLen == 4

\* longest changed-file list of a pull request
MaxFiles == 2

\* ------------------------------------------------------------------------
\* JavaScript numbers and strings
\* ------------------------------------------------------------------------

Base == 1024

NaN == <<-1>>

Zero == <<0>>

RECURSIVE BigOf(_)
\* the natural n as a JavaScript number
BigOf(n) == IF n < Base THEN <<n>> ELSE <<n % Base>> \o BigOf(n \div Base)

\* x * 1024
Times1024(x) == IF x = NaN THEN NaN ELSE IF x = Zero THEN Zero ELSE <<0>> \o x

RECURSIVE HighestDiff(_, _, _)
\* the highest limb index at which x and y (of equal length) differ, 0 if none
HighestDiff(x, y, k) ==
    IF k = 0 THEN 0
    ELSE IF x[k] # y[k] THEN k ELSE HighestDiff(x, y, k - 1)

\* x > y on JavaScript numbers: false as soon as one side is NaN
Greater(x, y) ==
    IF x = NaN \/ y = NaN THEN FALSE
    ELSE IF Len(x) # Len(y) THEN Len(x) > Len(y)
    ELSE LET k == HighestDiff(x, y, Len(x))
         IN  k # 0 /\ x[k] > y[k]

DigitChars == {"0", "1", "2", "3", "4", "5", "6", "7", "8", "9"}

DigitVal(c) ==
    CASE c = "0" -> 0 [] c = "1" -> 1 [] c = "2" -> 2 [] c = "3" -> 3
      [] c = "4" -> 4 [] c = "5" -> 5 [] c = "6" -> 6 [] c = "7" -> 7
      [] c = "8" -> 8 [] c = "9" -> 9

\* String.prototype.toLowerCase on one character of the alphabet
LowerChar(c) ==
    CASE c = "K" -> "k" [] c = "M" -> "m" [] c = "G" -> "g" [] c = "B" -> "b"
      [] c = "Z" -> "z" [] OTHER -> c

toLowerCase(s) == [k \in 1..Len(s) |-> LowerChar(s[k])]

\* s.slice(-n): the last n characters, the whole string when it is shorter
SliceLast(s, n) == IF Len(s) <= n THEN s ELSE SubSeq(s, Len(s) - n + 1, Len(s))

\* s.slice(0, -n): all but the last n characters
SliceButLast(s, n) == IF Len(s) <= n THEN <<>> ELSE SubSeq(s, 1, Len(s) - n)

RECURSIVE RadixValue(_, _, _)
\* the value of the digit string s in the given radix (s is within 31 bits)
RadixValue(s, radix, acc) ==
    IF s = <<>> THEN acc
    ELSE RadixValue(Tail(s), radix, acc * radix + DigitVal(Head(s)))

AllIn(s, chars) == \A k \in 1..Len(s) : s[k] \in chars

\* Number(s) for a string s over Alphabet: "" is 0, a run of decimal digits
\* is its decimal value, 0b/0B followed by binary digits is a binary
\* literal, anything else is NaN.
NumberOfString(s) ==
    IF s = <<>> THEN Zero
    ELSE IF AllIn(s, DigitChars) THEN BigOf(RadixValue(s, 10, 0))
    ELSE IF /\ Len(s) >= 3
            /\ s[1] = "0"
            /\ s[2] \in {"b", "B"}
            /\ AllIn(SubSeq(s, 3, Len(s)), {"0", "1"})
         THEN BigOf(RadixValue(SubSeq(s, 3, Len(s)), 2, 0))
    ELSE NaN

\* A value returned by getFileSizeLimitBytes is a number or a string.
NumVal(x) == [t |-> "number", n |-> x, s |-> <<>>]

StrVal(str) == [t |-> "string", n |-> Zero, s |-> str]

\* Number(v)
Number(v) == IF v.t = "number" THEN v.n ELSE NumberOfString(v.s)

\* ------------------------------------------------------------------------
\* getFileSizeLimitBytes
\* ------------------------------------------------------------------------

\* a plausible slip: the 'gb' branch multiplies twice instead of three times
getFileSizeLimitBytesGbAsMb(input) ==
    LET lastTwoChars == toLowerCase(SliceLast(input, 2))
        prefix == NumberOfString(SliceButLast(input, 2))
    IN  IF lastTwoChars = <<"k", "b">> THEN NumVal(Times1024(prefix))
        ELSE IF lastTwoChars = <<"m", "b">>
             THEN NumVal(Times1024(Times1024(prefix)))
        ELSE IF lastTwoChars = <<"g", "b">>
             THEN NumVal(Times1024(Times1024(prefix)))
        ELSE IF Len(lastTwoChars) >= 2 /\ lastTwoChars[2] = "b"
             THEN StrVal(SliceButLast(input, 1))
        ELSE StrVal(input)

getFileSizeLimitBytes(input) ==
    LET lastTwoChars == toLowerCase(SliceLast(input, 2))
        prefix == NumberOfString(SliceButLast(input, 2))
    IN  IF lastTwoChars = <<"k", "b">> THEN NumVal(Times1024(prefix))
        ELSE IF lastTwoChars = <<"m", "b">>
             THEN NumVal(Times1024(Times1024(prefix)))
        ELSE IF lastTwoChars = <<"g", "b">>
             THEN NumVal(Times1024(Times1024(Times1024(prefix))))
        ELSE IF Len(lastTwoChars) >= 2 /\ lastTwoChars[2] = "b"
             THEN StrVal(SliceButLast(input, 1))
        ELSE StrVal(input)

\* ------------------------------------------------------------------------
\* The environment: repository paths, glob patterns, patches, blob sizes
\* ------------------------------------------------------------------------

Paths == {"a/b/big.bin", "readme.png", "notes.txt"}

\* the extension of a path, which is all the globs of the model look at
Ext(path) ==
    CASE path = "a/b/big.bin" -> "bin"
      [] path = "readme.png" -> "png"
      [] path = "notes.txt" -> "txt"

\* micromatch on one glob of the form **/*.ext
GlobMatch(path, glob) ==
    CASE glob = "**/*.bin" -> Ext(path) = "bin"
      [] glob = "**/*.png" -> Ext(path) = "png"
      [] OTHER -> FALSE

\* micromatch.isMatch(filename, patterns): some pattern of the list matches
isMatch(filename, patterns) ==
    \E k \in 1..Len(patterns) : GlobMatch(filename, patterns[k])

\* values of the exclusionPatterns input
ExclusionChoices == {<<>>, <<"**/*.png">>}

\* values of the inclusionPatterns input
InclusionChoices == {<<>>, <<"**/*.bin", "**/*.png">>}

PointerSignature == "version https://git-lfs.github.com/spec/v1"

\* the patch of a changed file: absent, or its lines
NoPatch == [present |-> FALSE, lines |-> <<>>]

PlainPatch == [present |-> TRUE, lines |-> <<"binary diff suppressed">>]

PointerPatch ==
    [present |-> TRUE, lines |-> <<PointerSignature, "oid sha256:4d7a">>]

Patches == {NoPatch, PlainPatch, PointerPatch}

\* the patch of a file the run has not looked at
UnreadPatch == [present |-> FALSE, lines |-> <<"(not read by the run)">>]

\* file.patch?.includes(signature): undefined when the patch is absent
PatchIncludes(patch, signature) ==
    patch.present /\ \E k \in 1..Len(patch.lines) : patch.lines[k] = signature

\* blob.size of the platform's answer; Null when it has none
Null == -1

BlobSizes == {Null, 1025}

\* values of the filesizelimit input in a run of the check
ThresholdInputs == {<<"1", "k", "b">>, <<"1", "0", "2", "5">>}

\* outcomes of execFileP('grep', ['-IL', '.', filename]):
\*   listed   exit status 0, the file name on stdout
\*   quiet    exit status 0, nothing on stdout
\*   exit1    exit status 1 (the promise rejects)
\*   broken   grep could not run or could not read the file (the promise
\*            rejects: ENOENT, EACCES, exit status 2)
GrepOutcomes == {"listed", "quiet", "exit1", "broken"}

RECURSIVE SeqsUpTo(_, _)
\* the sequences over S of length at most n
SeqsUpTo(S, n) ==
    IF n = 0 THEN {<<>>}
    ELSE LET shorter == SeqsUpTo(S, n - 1)
         IN  shorter \cup {Append(q, x) : q \in shorter, x \in S}

ChangedFiles == [filename : Paths]

Filenames(files) == {files[k].filename : k \in 1..Len(files)}

\* the file lists the platform can return: no path twice
PullFileLists ==
    {q \in SeqsUpTo(ChangedFiles, MaxFiles) :
        \A a, b \in 1..Len(q) : a # b => q[a].filename # q[b].filename}

RECURSIVE SelectFiles(_, _, _)
\* Array.prototype.filter: the files of the list whose name is in `keep`
\* when `wanted`, outside it otherwise, in the order of the list
SelectFiles(files, keep, wanted) ==
    IF files = <<>> THEN <<>>
    ELSE LET rest == SelectFiles(Tail(files), keep, wanted)
         IN  IF (Head(files).filename \in keep) = wanted
             THEN <<Head(files)>> \o rest
             ELSE rest

Contains(list, x) == \E k \in 1..Len(list) : list[k] = x

Occurrences(list, x) == Cardinality({k \in 1..Len(list) : list[k] = x})

\* ------------------------------------------------------------------------
\* State
\* ------------------------------------------------------------------------
\* The platform fixes a file's patch and the working tree fixes its filter
\* attribute before the run starts.  The run reads each of them at most at
\* two places, so the model draws the value where the run first reads it
\* and keeps it from then on: `patch` and `lfsAttr` hold what has been read.

VARIABLES
    variant,        \* 1: run of lines 37-151, 2: run of lines 300-428
    filesizelimit,  \* the filesizelimit input
    pullFiles,      \* the changed files the platform lists for the pull request
    patch,          \* per path, the patch of the listed file, once read
    lfsAttr,        \* per path, what git check-attr filter says, once asked
    issueLabelled,  \* whether the report label is on the pull request
    labelledBefore, \* whether it was when the run started
    pc,             \* where the run stands
    fsl,            \* what getFileSizeLimitBytes returned
    exclusionPatterns,
    inclusionPatterns,
    files,          \* the listed files that survive the exclusion filter
    prFilesWithBlobSize,
    prFilesMatchingIncludePattern,
    largeFiles,
    accidentallyCheckedInLsfFiles,
    consideredBinaryFiles,
    inclusionPatternMatchingFiles,
    lsfFiles,
    idx,            \* position of the running for-of loop
    grepResult,     \* per path, how its grep probe ended ("none": not probed)
    addLabelsReq,   \* issues.addLabels: idle, pending, ok, failed
    createCommentReq, \* issues.createComment: idle, pending, ok, failed
    calls,          \* the external calls requested so far
    output,         \* the lfsFiles output of the run
    failed          \* core.setFailed: "no", "flagged" or "error"

vars ==
    <<variant, filesizelimit, pullFiles, patch, lfsAttr, issueLabelled,
      labelledBefore, pc, fsl, exclusionPatterns, inclusionPatterns, files, prFilesWithBlobSize,
      prFilesMatchingIncludePattern, largeFiles,
      accidentallyCheckedInLsfFiles, consideredBinaryFiles,
      inclusionPatternMatchingFiles, lsfFiles, idx, grepResult, addLabelsReq,
      createCommentReq, calls, output, failed>>

envVars == <<variant, filesizelimit, pullFiles, labelledBefore>>

treeVars == <<patch, lfsAttr>>

buckets ==
    <<largeFiles, accidentallyCheckedInLsfFiles, consideredBinaryFiles,
      inclusionPatternMatchingFiles>>

fetched == <<files, prFilesWithBlobSize, prFilesMatchingIncludePattern>>

patterns == <<exclusionPatterns, inclusionPatterns>>

requests == <<addLabelsReq, createCommentReq>>

\* what the locals of run hold before the run has assigned them
InitRun ==
    /\ patch = [p \in Paths |-> UnreadPatch]
    /\ lfsAttr = [p \in Paths |-> "unasked"]
    /\ issueLabelled \in BOOLEAN
    /\ labelledBefore = issueLabelled
    /\ pc = "start"
    /\ fsl = StrVal(<<>>)
    /\ exclusionPatterns = <<>>
    /\ inclusionPatterns = <<>>
    /\ files = <<>>
    /\ prFilesWithBlobSize = <<>>
    /\ prFilesMatchingIncludePattern = <<>>
    /\ largeFiles = <<>>
    /\ accidentallyCheckedInLsfFiles = <<>>
    /\ consideredBinaryFiles = <<>>
    /\ inclusionPatternMatchingFiles = <<>>
    /\ lsfFiles = <<>>
    /\ idx = 1
    /\ grepResult = [p \in Paths |-> "none"]
    /\ addLabelsReq = "idle"
    /\ createCommentReq = "idle"
    /\ calls = {}
    /\ output = [set |-> FALSE, files |-> <<>>]
    /\ failed = "no"

Init ==
    /\ variant \in {1, 2}
    /\ filesizelimit \in ThresholdInputs
    /\ pullFiles \in PullFileLists
    /\ InitRun

\* a rejected promise reaches run().catch: core.setFailed(error.message)
Throw ==
    /\ pc' = "done"
    /\ failed' = "error"

\* what git check-attr can answer for a path: what it answered before
AttrAnswers(filename) ==
    IF lfsAttr[filename] = "unasked" THEN {"lfs", "unspecified"}
    ELSE {lfsAttr[filename]}

\* what file.patch can be for a path: what it was before
PatchAnswers(filename) ==
    IF patch[filename] = UnreadPatch THEN Patches ELSE {patch[filename]}

\* ------------------------------------------------------------------------
\* run, up to the classification
\* ------------------------------------------------------------------------

\* lines 38-49 and 301-310: parse the size limit, then look the label up
Start ==
    /\ pc = "start"
    /\ fsl' = getFileSizeLimitBytes(filesizelimit)
    /\ calls' = calls \cup {"getLabel"}
    /\ pc' = "getLabel"
    /\ UNCHANGED <<envVars, treeVars, issueLabelled, patterns, fetched,
                   buckets, lsfFiles, idx, grepResult, requests, output,
                   failed>>

\* getOrCreateLfsWarningLabel: the label is there, is 'Not Found' (and is
\* then created), or the lookup fails otherwise (logged, not fatal)
GetLabelReturns ==
    /\ pc = "getLabel"
    /\ \E answer \in {"found", "Not Found", "other error"} :
          IF answer = "Not Found"
          THEN /\ calls' = calls \cup {"createLabel"}
               /\ pc' = "createLabel"
          ELSE /\ calls' = calls
               /\ pc' = "event"
    /\ UNCHANGED <<envVars, treeVars, issueLabelled, fsl, patterns, fetched,
                   buckets, lsfFiles, idx, grepResult, requests, output,
                   failed>>

CreateLabelReturns ==
    /\ pc = "createLabel"
    /\ \/ pc' = "event" /\ failed' = failed
       \/ Throw
    /\ UNCHANGED <<envVars, treeVars, issueLabelled, fsl, patterns, fetched,
                   buckets, lsfFiles, idx, grepResult, requests, calls,
                   output>>

\* lines 51-60 and 312-321: only a pull_request event with a number goes on
CheckEvent ==
    /\ pc = "event"
    /\ \E event_type \in {"pull_request", "push"}, hasNumber \in BOOLEAN :
          IF event_type # "pull_request"
          THEN pc' = "done" /\ failed' = failed /\ calls' = calls
          ELSE IF ~hasNumber
          THEN Throw /\ calls' = calls
          ELSE /\ pc' = "listFiles"
               /\ failed' = failed
               /\ calls' = calls \cup {"listFiles"}
    /\ UNCHANGED <<envVars, treeVars, issueLabelled, fsl, patterns, fetched,
                   buckets, lsfFiles, idx, grepResult, requests, output>>

\* the files of `data` that getPrFilesWithBlobSize keeps
NotExcluded(data, exclusion) ==
    IF Len(exclusion) > 0
    THEN SelectFiles(data, {f \in Filenames(data) : isMatch(f, exclusion)}, FALSE)
    ELSE data

\* the files of `data` that getPrFilesMatchingInclusionPattern returns
MatchingInclusion(data, inclusion) ==
    IF Len(inclusion) > 0
    THEN SelectFiles(data, {f \in Filenames(data) : isMatch(f, inclusion)}, TRUE)
    ELSE data

\* getPrFilesWithBlobSize, lines 204-221 and 481-497: the listing answers
\* and the exclusion filter runs; one getBlob per kept file is requested
ListFilesReturns ==
    /\ pc = "listFiles"
    /\ \/ /\ Throw
          /\ UNCHANGED <<exclusionPatterns, files, calls>>
       \/ \E exclusion \in ExclusionChoices :
             /\ exclusionPatterns' = exclusion
             /\ files' = NotExcluded(pullFiles, exclusion)
             /\ calls' = IF files' = <<>> THEN calls ELSE calls \cup {"getBlob"}
             /\ pc' = "getBlob"
             /\ failed' = failed
    /\ UNCHANGED <<envVars, treeVars, issueLabelled, fsl, inclusionPatterns,
                   prFilesWithBlobSize, prFilesMatchingIncludePattern,
                   buckets, lsfFiles, idx, grepResult, requests, output>>

\* lines 222-238 and 499-515: Promise.all over the blob requests settles.
\* Draft 1 then reads inclusionPatterns (line 64); draft 2 lists the files
\* again in getPrFilesMatchingInclusionPattern.
GetBlobsReturn ==
    /\ pc = "getBlob"
    /\ \/ /\ files # <<>>
          /\ Throw
          /\ UNCHANGED <<prFilesWithBlobSize, inclusionPatterns, calls>>
       \/ \E sizes \in [1..Len(files) -> BlobSizes] :
             /\ prFilesWithBlobSize' =
                   [k \in 1..Len(files) |->
                       [filename |-> files[k].filename,
                        fileblobsize |-> sizes[k]]]
             /\ failed' = failed
             /\ IF variant = 1
                THEN /\ inclusionPatterns' \in InclusionChoices
                     /\ calls' = calls
                     /\ pc' = "classify"
                ELSE /\ inclusionPatterns' = inclusionPatterns
                     /\ calls' = calls \cup {"listFiles again"}
                     /\ pc' = "listFilesAgain"
    /\ UNCHANGED <<envVars, treeVars, issueLabelled, fsl, exclusionPatterns,
                   files, prFilesMatchingIncludePattern, buckets, lsfFiles,
                   idx, grepResult, requests, output>>

\* getPrFilesMatchingInclusionPattern, lines 518-537 (draft 2)
ListFilesAgainReturns ==
    /\ pc = "listFilesAgain"
    /\ \/ /\ Throw
          /\ UNCHANGED <<inclusionPatterns, prFilesMatchingIncludePattern>>
       \/ \E inclusion \in InclusionChoices :
             /\ inclusionPatterns' = inclusion
             /\ prFilesMatchingIncludePattern' =
                   MatchingInclusion(pullFiles, inclusion)
             /\ pc' = "classify"
             /\ failed' = failed
    /\ UNCHANGED <<envVars, treeVars, issueLabelled, fsl, exclusionPatterns,
                   files, prFilesWithBlobSize, buckets, lsfFiles, idx,
                   grepResult, requests, calls, output>>

\* ------------------------------------------------------------------------
\* The classification loops
\* ------------------------------------------------------------------------

\* a plausible slip: the comparison turned around
OversizedReversed(file, limit) ==
    /\ file.fileblobsize # Null
    /\ Greater(Number(limit), BigOf(file.fileblobsize))

\* lines 72 and 333: fileblobsize !== null && fileblobsize > Number(fsl)
Oversized(file, limit) ==
    /\ file.fileblobsize # Null
    /\ Greater(BigOf(file.fileblobsize), Number(limit))

\* lines 76-78, 337-339, 368-370: stdout.includes('filter: lfs')
shouldBeStoredInLFS(answer) == answer = "lfs"

\* a plausible slip: a file without a patch passes as an LFS pointer
isStoredInLFSAbsentPasses(filePatch) ==
    ~filePatch.present \/ PatchIncludes(filePatch, PointerSignature)

\* lines 81-83 and 342-344
isStoredInLFS(filePatch) == PatchIncludes(filePatch, PointerSignature)

\* doGrepBasedBinaryCheck of draft 1, lines 13-35: the binary and the
\* inclusion bucket after the probe of `filename` ended with `outcome`
doGrepBasedBinaryCheck(filename, binary, inclusion, matching, outcome) ==
    IF outcome \in {"listed", "quiet"}
    THEN [binary |-> IF outcome = "listed" THEN Append(binary, filename)
                     ELSE binary,
          matching |-> matching]
    ELSE [binary |-> binary,
          matching |-> IF Len(inclusion) > 0 /\ isMatch(filename, inclusion)
                       THEN Append(matching, filename)
                       ELSE matching]

\* the inline probe of draft 2, lines 349-358
InlineGrepCheck(filename, binary, matching, outcome) ==
    [binary |-> IF outcome = "listed" THEN Append(binary, filename)
                ELSE binary,
     matching |-> matching]

\* one iteration of the loop of lines 70-96 and 331-361
ClassifyFile ==
    /\ pc = "classify"
    /\ idx <= Len(prFilesWithBlobSize)
    /\ LET file == prFilesWithBlobSize[idx]
           filename == file.filename
       IN  IF Oversized(file, fsl)
           THEN /\ largeFiles' = Append(largeFiles, filename)
                /\ idx' = idx + 1
                /\ pc' = pc
                /\ failed' = failed
                /\ UNCHANGED <<accidentallyCheckedInLsfFiles,
                               consideredBinaryFiles,
                               inclusionPatternMatchingFiles, grepResult,
                               calls, treeVars>>
           ELSE \/ \* git check-attr cannot run
                   /\ Throw
                   /\ calls' = calls \cup {"check-attr"}
                   /\ UNCHANGED <<buckets, idx, grepResult, treeVars>>
                \/ \E answer \in AttrAnswers(filename) :
                      /\ lfsAttr' = [lfsAttr EXCEPT ![filename] = answer]
                      /\ idx' = idx + 1
                      /\ pc' = pc
                      /\ failed' = failed
                      /\ largeFiles' = largeFiles
                      /\ IF shouldBeStoredInLFS(answer)
                         THEN \E filePatch \in PatchAnswers(filename) :
                                 /\ patch' = [patch EXCEPT ![filename] = filePatch]
                                 /\ accidentallyCheckedInLsfFiles' =
                                       IF ~isStoredInLFS(filePatch)
                                       THEN Append(accidentallyCheckedInLsfFiles,
                                                   filename)
                                       ELSE accidentallyCheckedInLsfFiles
                                 /\ calls' = calls \cup {"check-attr"}
                                 /\ UNCHANGED <<consideredBinaryFiles,
                                                inclusionPatternMatchingFiles,
                                                grepResult>>
                         ELSE \E outcome \in GrepOutcomes :
                                 LET after ==
                                        IF variant = 1
                                        THEN doGrepBasedBinaryCheck(
                                                filename, consideredBinaryFiles,
                                                inclusionPatterns,
                                                inclusionPatternMatchingFiles,
                                                outcome)
                                        ELSE InlineGrepCheck(
                                                filename, consideredBinaryFiles,
                                                inclusionPatternMatchingFiles,
                                                outcome)
                                 IN  /\ consideredBinaryFiles' = after.binary
                                     /\ inclusionPatternMatchingFiles' =
                                           after.matching
                                     /\ grepResult' =
                                           [grepResult EXCEPT ![filename] = outcome]
                                     /\ calls' = calls \cup {"check-attr", "grep"}
                                     /\ UNCHANGED <<patch,
                                                    accidentallyCheckedInLsfFiles>>
    /\ UNCHANGED <<envVars, issueLabelled, fsl, patterns, fetched, lsfFiles,
                   requests, output>>

\* lines 98-100 (draft 1) and 363-364 (draft 2): the loop is over
EndClassify ==
    /\ pc = "classify"
    /\ idx > Len(prFilesWithBlobSize)
    /\ IF variant = 1
       THEN /\ lsfFiles' = largeFiles \o accidentallyCheckedInLsfFiles
                              \o consideredBinaryFiles
                              \o inclusionPatternMatchingFiles
            /\ pc' = "report"
       ELSE /\ lsfFiles' = largeFiles \o accidentallyCheckedInLsfFiles
                              \o consideredBinaryFiles
            /\ pc' = "patternPass"
    /\ idx' = 1
    /\ UNCHANGED <<envVars, treeVars, issueLabelled, fsl, patterns, fetched,
                   buckets, grepResult, requests, calls, output, failed>>

\* a plausible slip: the second pass does not look at what is flagged already
FlagsByPatternNoDedup(answer, filename, flagged) == ~shouldBeStoredInLFS(answer)

\* line 371: !hasLfsFlag && !lsfFiles.includes(filename)
FlagsByPattern(answer, filename, flagged) ==
    ~shouldBeStoredInLFS(answer) /\ ~Contains(flagged, filename)

\* one iteration of the loop of lines 366-375 (draft 2)
PatternPassFile ==
    /\ pc = "patternPass"
    /\ idx <= Len(prFilesMatchingIncludePattern)
    /\ calls' = calls \cup {"check-attr"}
    /\ LET filename == prFilesMatchingIncludePattern[idx].filename
       IN  \/ /\ Throw
              /\ UNCHANGED <<inclusionPatternMatchingFiles, idx, lfsAttr>>
           \/ \E answer \in AttrAnswers(filename) :
                 /\ lfsAttr' = [lfsAttr EXCEPT ![filename] = answer]
                 /\ inclusionPatternMatchingFiles' =
                       IF FlagsByPattern(answer, filename, lsfFiles)
                       THEN Append(inclusionPatternMatchingFiles, filename)
                       ELSE inclusionPatternMatchingFiles
                 /\ idx' = idx + 1
                 /\ pc' = pc
                 /\ failed' = failed
    /\ UNCHANGED <<envVars, patch, issueLabelled, fsl, patterns, fetched,
                   largeFiles, accidentallyCheckedInLsfFiles,
                   consideredBinaryFiles, lsfFiles, grepResult, requests,
                   output>>

\* line 377 (draft 2)
EndPatternPass ==
    /\ pc = "patternPass"
    /\ idx > Len(prFilesMatchingIncludePattern)
    /\ lsfFiles' = lsfFiles \o inclusionPatternMatchingFiles
    /\ pc' = "report"
    /\ UNCHANGED <<envVars, treeVars, issueLabelled, fsl, patterns, fetched,
                   buckets, idx, grepResult, requests, calls, output, failed>>

\* ------------------------------------------------------------------------
\* Reporting
\* ------------------------------------------------------------------------

\* lines 107-128/137 and 384-405/414: with something flagged, request the
\* label and the comment together; with nothing flagged, list the labels
Report ==
    /\ pc = "report"
    /\ IF Len(lsfFiles) > 0
       THEN /\ addLabelsReq' = "pending"
            /\ createCommentReq' = "pending"
            /\ calls' = calls \cup {"addLabels", "createComment"}
            /\ pc' = "awaitAll"
       ELSE /\ UNCHANGED requests
            /\ calls' = calls \cup {"listLabelsOnIssue"}
            /\ pc' = "listLabels"
    /\ UNCHANGED <<envVars, treeVars, issueLabelled, fsl, patterns, fetched,
                   buckets, lsfFiles, idx, grepResult, output, failed>>

\* the platform answers issues.addLabels
AddLabelsCompletes ==
    /\ addLabelsReq = "pending"
    /\ \/ addLabelsReq' = "ok" /\ issueLabelled' = TRUE
       \/ addLabelsReq' = "failed" /\ issueLabelled' = issueLabelled
    /\ UNCHANGED <<envVars, treeVars, pc, fsl, patterns, fetched, buckets,
                   lsfFiles, idx, grepResult, createCommentReq, calls, output,
                   failed>>

\* the platform answers issues.createComment
CreateCommentCompletes ==
    /\ createCommentReq = "pending"
    /\ createCommentReq' \in {"ok", "failed"}
    /\ UNCHANGED <<envVars, treeVars, issueLabelled, pc, fsl, patterns,
                   fetched, buckets, lsfFiles, idx, grepResult, addLabelsReq,
                   calls, output, failed>>

\* a plausible slip: Promise.any instead of Promise.all
AllFulfilledAny(a, b) == a = "ok" \/ b = "ok"

\* Promise.all fulfils when every promise has
AllFulfilled(a, b) == a = "ok" /\ b = "ok"

\* Promise.all rejects as soon as one promise has
SomeRejected(a, b) == a = "failed" \/ b = "failed"

\* lines 119-133 and 396-410: the await of Promise.all resumes
PromiseAllSettles ==
    /\ pc = "awaitAll"
    /\ \/ /\ AllFulfilled(addLabelsReq, createCommentReq)
          /\ output' = [set |-> TRUE, files |-> lsfFiles]
          /\ failed' = "flagged"
          /\ pc' = "done"
       \/ /\ ~AllFulfilled(addLabelsReq, createCommentReq)
          /\ SomeRejected(addLabelsReq, createCommentReq)
          /\ Throw
          /\ output' = output
    /\ UNCHANGED <<envVars, treeVars, issueLabelled, fsl, patterns, fetched,
                   buckets, lsfFiles, idx, grepResult, requests, calls>>

\* a plausible slip: the test for the label on the pull request negated
LabelIsOnIssueNegated(labelled) == ~labelled

\* lines 140 and 417: labels.map(l => l.name).includes(labelName)
LabelIsOnIssue(labelled) == labelled

\* lines 137-140 and 414-417: the label listing answers
ListLabelsReturns ==
    /\ pc = "listLabels"
    /\ \/ Throw /\ calls' = calls
       \/ /\ failed' = failed
          /\ IF LabelIsOnIssue(issueLabelled)
             THEN /\ calls' = calls \cup {"removeLabel"}
                  /\ pc' = "removeLabel"
             ELSE /\ calls' = calls
                  /\ pc' = "done"
    /\ UNCHANGED <<envVars, treeVars, issueLabelled, fsl, patterns, fetched,
                   buckets, lsfFiles, idx, grepResult, requests, output>>

\* lines 141-145 and 418-422: the label removal answers
RemoveLabelReturns ==
    /\ pc = "removeLabel"
    /\ \/ Throw /\ issueLabelled' = issueLabelled
       \/ /\ issueLabelled' = FALSE
          /\ pc' = "done"
          /\ failed' = failed
    /\ UNCHANGED <<envVars, treeVars, fsl, patterns, fetched, buckets,
                   lsfFiles, idx, grepResult, requests, calls, output>>

\* ------------------------------------------------------------------------
\* Specifications
\* ------------------------------------------------------------------------

Next ==
    \/ Start
    \/ GetLabelReturns
    \/ CreateLabelReturns
    \/ CheckEvent
    \/ ListFilesReturns
    \/ GetBlobsReturn
    \/ ListFilesAgainReturns
    \/ ClassifyFile
    \/ EndClassify
    \/ PatternPassFile
    \/ EndPatternPass
    \/ Report
    \/ AddLabelsCompletes
    \/ CreateCommentCompletes
    \/ PromiseAllSettles
    \/ ListLabelsReturns
    \/ RemoveLabelReturns

Spec == Init /\ [][Next]_vars

\* the characters size-limit strings are drawn from
Alphabet == {"0", "1", "5", "k", "K", "m", "M", "g", "G", "b", "B", "z"}

\* every size-limit string up to MaxLen characters, on an empty pull request
InitThreshold ==
    /\ variant \in {1, 2}
    /\ filesizelimit \in SeqsUpTo(Alphabet, MaxLen)
    /\ pullFiles = <<>>
    /\ InitRun

\* the size limit is parsed, whatever the string
SpecThreshold == InitThreshold /\ [][Start]_vars

\* ------------------------------------------------------------------------
\* Vocabulary of the properties
\* ------------------------------------------------------------------------

\* both loops of the classification are over
Classified ==
    \/ pc = "report"
    \/ "addLabels" \in calls
    \/ "listLabelsOnIssue" \in calls

\* the run is over and was a pull-request run that found nothing to flag
EndedUnflagged == pc = "done" /\ "listLabelsOnIssue" \in calls

InBucket(bucket, filename) == Contains(bucket, filename)

InOtherThanLarge(filename) ==
    \/ InBucket(accidentallyCheckedInLsfFiles, filename)
    \/ InBucket(consideredBinaryFiles, filename)
    \/ InBucket(inclusionPatternMatchingFiles, filename)

InAnyBucket(filename) ==
    InBucket(largeFiles, filename) \/ InOtherThanLarge(filename)

\* blobSize is known and strictly greater than the threshold in bytes
ExceedsThreshold(file) ==
    /\ file.fileblobsize # Null
    /\ Greater(BigOf(file.fileblobsize), Number(fsl))

\* how often the four buckets together hold the path
TimesFlagged(filename) ==
    Occurrences(largeFiles, filename)
      + Occurrences(accidentallyCheckedInLsfFiles, filename)
      + Occurrences(consideredBinaryFiles, filename)
      + Occurrences(inclusionPatternMatchingFiles, filename)

\* ------------------------------------------------------------------------
\* C1  oversized files
\* ------------------------------------------------------------------------

\* C1: after classification, every non-excluded file whose blob size is
\* known and strictly greater than the threshold is in largeFiles (the
\* oversized bucket) and in none of the other three buckets.
C1_OversizedOnly ==
    Classified =>
        \A k \in 1..Len(prFilesWithBlobSize) :
            LET file == prFilesWithBlobSize[k]
            IN  (/\ ~isMatch(file.filename, exclusionPatterns)
                 /\ ExceedsThreshold(file))
                => /\ InBucket(largeFiles, file.filename)
                   /\ ~InOtherThanLarge(file.filename)

\* an oversized file that the second pass of draft 2 also walked, without
\* an LFS attribute, and that still sits in largeFiles alone
C1_Witness ==
    /\ Classified
    /\ variant = 2
    /\ \E k \in 1..Len(prFilesWithBlobSize) :
          LET file == prFilesWithBlobSize[k]
          IN  /\ ExceedsThreshold(file)
              /\ Len(inclusionPatterns) > 0
              /\ isMatch(file.filename, inclusionPatterns)
              /\ lfsAttr[file.filename] = "unspecified"
              /\ InBucket(largeFiles, file.filename)

\* ------------------------------------------------------------------------
\* C2  LFS-filtered files
\* ------------------------------------------------------------------------

\* C2: after classification, every non-excluded file that is not oversized
\* and whose path is LFS-filtered is in accidentallyCheckedInLsfFiles (the
\* misdeclaredLfs bucket) exactly when its patch does not contain the
\* pointer signature, an absent patch counting as not containing it; and it
\* is in no other bucket.
C2_MisdeclaredIffNoPointer ==
    Classified =>
        \A k \in 1..Len(prFilesWithBlobSize) :
            LET file == prFilesWithBlobSize[k]
            IN  (/\ ~isMatch(file.filename, exclusionPatterns)
                 /\ ~ExceedsThreshold(file)
                 /\ lfsAttr[file.filename] = "lfs")
                => /\ patch[file.filename] \in Patches
                   /\ InBucket(accidentallyCheckedInLsfFiles, file.filename)
                        <=> ~PatchIncludes(patch[file.filename],
                                           PointerSignature)
                   /\ ~InBucket(largeFiles, file.filename)
                   /\ ~InBucket(consideredBinaryFiles, file.filename)
                   /\ ~InBucket(inclusionPatternMatchingFiles, file.filename)

\* two LFS-filtered files: one without a patch, flagged; one whose patch is
\* an LFS pointer, not flagged
C2_Witness ==
    /\ Classified
    /\ \E a, b \in 1..Len(prFilesWithBlobSize) :
          LET fa == prFilesWithBlobSize[a].filename
              fb == prFilesWithBlobSize[b].filename
          IN  /\ lfsAttr[fa] = "lfs" /\ lfsAttr[fb] = "lfs"
              /\ patch[fa] = NoPatch
              /\ patch[fb] = PointerPatch
              /\ InBucket(accidentallyCheckedInLsfFiles, fa)
              /\ ~InAnyBucket(fb)

\* ------------------------------------------------------------------------
\* C3  excluded files
\* ------------------------------------------------------------------------

\* C3: after classification, a listed file whose path matches an exclusion
\* pattern is in none of the four buckets and not in the flattened list.
C3_ExcludedNeverFlagged ==
    Classified =>
        \A k \in 1..Len(pullFiles) :
            isMatch(pullFiles[k].filename, exclusionPatterns)
            => /\ ~InAnyBucket(pullFiles[k].filename)
               /\ ~Contains(lsfFiles, pullFiles[k].filename)

\* ------------------------------------------------------------------------
\* C4  reporting flagged files
\* ------------------------------------------------------------------------

\* C4: once a pull-request run with a non-empty flattened list has left the
\* report step, the label-add and the comment-post have both been
\* requested; the lfsFiles output and the failing outcome exist only when
\* both requests have completed successfully (and the output is then the
\* flattened list); and a run that has ended after one of the two requests
\* failed has an error outcome and no output.
C4_ReportAfterBoth ==
    /\ (Classified /\ pc # "report" /\ Len(lsfFiles) > 0)
          => {"addLabels", "createComment"} \subseteq calls
    /\ (output.set \/ failed = "flagged")
          => /\ addLabelsReq = "ok" /\ createCommentReq = "ok"
             /\ output.set /\ failed = "flagged"
             /\ output.files = lsfFiles /\ Len(lsfFiles) > 0
    /\ (pc = "done" /\ (addLabelsReq = "failed" \/ createCommentReq = "failed"))
          => failed = "error" /\ ~output.set

\* a run that ended with an error because the comment could not be posted
\* although the label was added
C4_Witness ==
    /\ pc = "done"
    /\ addLabelsReq = "ok"
    /\ createCommentReq = "failed"
    /\ failed = "error"
    /\ ~output.set

\* ------------------------------------------------------------------------
\* C5  nothing flagged
\* ------------------------------------------------------------------------

\* C5 as stated: a pull-request run with an empty flattened list posts no
\* comment and adds no label, removes the label exactly when it was on the
\* pull request, and ends with a passing outcome and the label off the pull
\* request.
C5_UnflaggedAlwaysPasses ==
    EndedUnflagged =>
        /\ "createComment" \notin calls
        /\ "addLabels" \notin calls
        /\ ("removeLabel" \in calls) <=> labelledBefore
        /\ failed = "no"
        /\ ~issueLabelled

\* C5 as amended: a pull-request run with an empty flattened list posts no
\* comment and adds no label, and requests the removal of the label only if
\* the label was on the pull request; unless the label listing or the
\* removal fails, in which case the run ends with an error outcome, it
\* requests the removal exactly when the label was on the pull request and
\* ends with a passing outcome and the label off the pull request.
C5_UnflaggedPassesUnlessRequestFails ==
    EndedUnflagged =>
        /\ "createComment" \notin calls
        /\ "addLabels" \notin calls
        /\ ("removeLabel" \in calls) => labelledBefore
        /\ failed \in {"no", "error"}
        /\ failed = "no"
              => /\ ("removeLabel" \in calls) <=> labelledBefore
                 /\ ~issueLabelled

\* a passing run that took the label off the pull request
C5_Witness ==
    /\ EndedUnflagged
    /\ labelledBefore
    /\ "removeLabel" \in calls
    /\ ~issueLabelled
    /\ failed = "no"

\* ------------------------------------------------------------------------
\* C6  files matching an inclusion pattern
\* ------------------------------------------------------------------------

\* C6: after classification, every non-excluded file that matches an
\* inclusion pattern, is not LFS-filtered and is in none of largeFiles,
\* accidentallyCheckedInLsfFiles and consideredBinaryFiles is in
\* inclusionPatternMatchingFiles (the patternFlagged bucket) exactly once.
C6_PatternFlaggedOnce ==
    Classified =>
        \A k \in 1..Len(prFilesWithBlobSize) :
            LET filename == prFilesWithBlobSize[k].filename
            IN  (/\ ~isMatch(filename, exclusionPatterns)
                 /\ isMatch(filename, inclusionPatterns)
                 /\ lfsAttr[filename] = "unspecified"
                 /\ ~InBucket(largeFiles, filename)
                 /\ ~InBucket(accidentallyCheckedInLsfFiles, filename)
                 /\ ~InBucket(consideredBinaryFiles, filename))
                => Occurrences(inclusionPatternMatchingFiles, filename) = 1

\* ------------------------------------------------------------------------
\* C7  no inclusion pattern
\* ------------------------------------------------------------------------

\* C7: with an empty inclusion pattern list no file is in
\* inclusionPatternMatchingFiles after classification.
C7_EmptyInclusionDisabled ==
    (Classified /\ Len(inclusionPatterns) = 0)
        => inclusionPatternMatchingFiles = <<>>

\* ------------------------------------------------------------------------
\* C8  no path twice
\* ------------------------------------------------------------------------

\* C8: at every moment each path is at most once in the four buckets
\* together, and after classification the flattened list is largeFiles,
\* accidentallyCheckedInLsfFiles, consideredBinaryFiles and
\* inclusionPatternMatchingFiles in this order and holds no path twice.
C8_NoPathTwice ==
    /\ \A p \in Paths : TimesFlagged(p) <= 1
    /\ Classified =>
          /\ lsfFiles = largeFiles \o accidentallyCheckedInLsfFiles
                           \o consideredBinaryFiles
                           \o inclusionPatternMatchingFiles
          /\ \A p \in Paths : Occurrences(lsfFiles, p) <= 1

\* the second pass of draft 2 walked a file of largeFiles that has no LFS
\* attribute, and flagged another file by pattern
C8_Witness ==
    /\ Classified
    /\ variant = 2
    /\ \E a, b \in 1..Len(prFilesMatchingIncludePattern) :
          LET fa == prFilesMatchingIncludePattern[a].filename
              fb == prFilesMatchingIncludePattern[b].filename
          IN  /\ InBucket(largeFiles, fa)
              /\ lfsAttr[fa] = "unspecified"
              /\ InBucket(inclusionPatternMatchingFiles, fb)
              /\ lsfFiles = <<fa, fb>>

\* ------------------------------------------------------------------------
\* C9  the size limit in bytes
\* ------------------------------------------------------------------------

\* the unit suffixes of the size limit, in any letter case, with the power
\* of 1024 each stands for
UnitSuffixes ==
    {[text |-> <<>>, power |-> 0]}
      \cup {[text |-> <<b>>, power |-> 0] : b \in {"b", "B"}}
      \cup {[text |-> <<c, b>>, power |-> 1] : c \in {"k", "K"}, b \in {"b", "B"}}
      \cup {[text |-> <<c, b>>, power |-> 2] : c \in {"m", "M"}, b \in {"b", "B"}}
      \cup {[text |-> <<c, b>>, power |-> 3] : c \in {"g", "G"}, b \in {"b", "B"}}

RECURSIVE DecimalOf(_)
\* the decimal numeral of the natural n
DecimalOf(n) ==
    LET last == CHOOSE c \in DigitChars : DigitVal(c) = n % 10
    IN  IF n < 10 THEN <<last>> ELSE Append(DecimalOf(n \div 10), last)

RECURSIVE Scaled(_, _)
\* n * 1024^power as a JavaScript number
Scaled(n, power) ==
    IF power = 0 THEN BigOf(n)
    ELSE IF n = 0 THEN Zero
    ELSE <<0>> \o Scaled(n, power - 1)

\* the string is a decimal numeral followed by the text of the unit
IsNumeralWith(str, unit) ==
    /\ Len(str) > Len(unit.text)
    /\ SubSeq(str, Len(str) - Len(unit.text) + 1, Len(str)) = unit.text
    /\ AllIn(SubSeq(str, 1, Len(str) - Len(unit.text)), DigitChars)

\* C9: for a size-limit string made of a decimal numeral followed by no
\* suffix, b, kb, mb or gb in any letter case, the threshold that the
\* oversized comparison uses, Number(fsl), is the numeral's value times 1,
\* 1, 1024, 1024^2 and 1024^3.
C9_ThresholdBytes ==
    pc # "start" =>
        \A unit \in UnitSuffixes :
            IsNumeralWith(filesizelimit, unit)
            => LET numeral == SubSeq(filesizelimit, 1,
                                     Len(filesizelimit) - Len(unit.text))
               IN  Number(fsl) = Scaled(RadixValue(numeral, 10, 0), unit.power)

\* '10mb' has been parsed to 10485760 = 10 * 1024^2
C9_Witness ==
    /\ pc # "start"
    /\ filesizelimit = DecimalOf(10) \o <<"m", "b">>
    /\ Number(fsl) = <<0, 0, 10>>

\* ------------------------------------------------------------------------
\* C10  a probe that could not run
\* ------------------------------------------------------------------------

\* C10: a run in which the grep probe of some file failed for another
\* reason than its exit status 1 (the file is missing or unreadable, grep
\* cannot be run) does not end with a passing outcome.
C10_BrokenProbeNeverPasses ==
    (pc = "done" /\ \E p \in Paths : grepResult[p] = "broken")
        => failed # "no"

\* ------------------------------------------------------------------------
\* C11  a malformed size limit
\* ------------------------------------------------------------------------

\* values of the filesizelimit input that are no numeral with a unit:
\* '1z' is returned as it is and 'zkb' gives Number('z') * 1024; both are
\* NaN at the comparison
MalformedInputs == {<<"1", "z">>, <<"z", "k", "b">>}

\* a run of the check on a malformed size limit
InitMalformed ==
    /\ variant \in {1, 2}
    /\ filesizelimit \in MalformedInputs
    /\ pullFiles \in PullFileLists
    /\ InitRun

SpecMalformed == InitMalformed /\ [][Next]_vars

\* the string is a decimal numeral followed by no suffix, b, kb, mb or gb
WellFormed(str) == \E unit \in UnitSuffixes : IsNumeralWith(str, unit)

\* C11: a run on a malformed size-limit string ends with a failing outcome
\* and has requested no external call: no label lookup or creation, no file
\* listing, no blob fetch, no label add or removal, no comment.
C11_MalformedAbortsFirst ==
    (pc = "done" /\ ~WellFormed(filesizelimit))
        => failed = "error" /\ calls = {}

====
